---- MODULE Spec2Model ----
(***************************************************************************)
(* A model of tools/bal_train_test_split.py: one run of main() as a state  *)
(* machine (source check, overwrite prompt, output directories, pool       *)
(* listing, empty-label dump, label summarization, minimum-sample filter,  *)
(* set_split once or twice, copying), with set_split and the scikit-learn  *)
(* StratifiedShuffleSplit it calls as operators.                           *)
(*                                                                         *)
(* Conventions.  Positions in lists are 1-based here and 0-based in the    *)
(* source.  A stem is a number; the label file with stem s is files[s], so *)
(* the sorted listing of all_labels is <<1, ..., Len(files)>>.  A fraction *)
(* is a pair <<num, den>>; the fractions used are dyadic, so the float     *)
(* products, sums and quotients of the source are exact.                   *)
(***************************************************************************)
EXTENDS Integers, Sequences, FiniteSets, TLC

\* ------------------------------------------------------------------ bounds
\* Largest number of label files in all_labels.
MaxPool == 4
\* Largest per-class count in the class-count specification.
MaxCount == 8
\* Largest number of lines of a label file in the label-line specification.
MaxLines == 3
\* Largest number of label files when the script is run twice.
MaxPoolTwice == 3

None == "None"
\* An argument the command line leaves out (default = None), or gives.
Absent == <<>>
Given(x) == <<x>>

\* ------------------------------------------------------- sequences and sets
Range(s) == {s[i] : i \in DOMAIN s}

Min(a, b) == IF a < b THEN a ELSE b

IsAscending(s) == \A i \in 1..(Len(s) - 1) : s[i] < s[i + 1]

NoDuplicates(s) == \A i, j \in DOMAIN s : i # j => s[i] # s[j]

\* Every listing of the finite set S without repetition.
RECURSIVE Perms(_)
Perms(S) ==
    IF S = {} THEN {<<>>}
    ELSE UNION {{<<x>> \o p : p \in Perms(S \ {x})} : x \in S}

\* The elements of a finite set of integers in ascending order (sorted(), line 310).
RECURSIVE SortedSeq(_)
SortedSeq(S) ==
    IF S = {} THEN <<>>
    ELSE LET m == CHOOSE x \in S : \A y \in S : x <= y
         IN  <<m>> \o SortedSeq(S \ {m})

\* del lst[i]
DelAt(s, i) == SubSeq(s, 1, i - 1) \o SubSeq(s, i + 1, Len(s))

RECURSIVE SumOver(_, _)
SumOver(f, S) ==
    IF S = {} THEN 0
    ELSE LET c == CHOOSE x \in S : TRUE IN f[c] + SumOver(f, S \ {c})

\* ---------------------------------------------------------------- fractions
FracLt(a, b) == a[1] * b[2] < b[1] * a[2]
FracLe(a, b) == a[1] * b[2] <= b[1] * a[2]
FracAdd(a, b) == <<a[1] * b[2] + b[1] * a[2], a[2] * b[2]>>
FracDiv(a, b) == <<a[1] * b[2], a[2] * b[1]>>
Zero == <<0, 1>>
One == <<1, 1>>
\* math.ceil(f * n) and int(n * f) for f >= 0
CeilMul(f, n) == (f[1] * n + f[2] - 1) \div f[2]
FloorMul(f, n) == (f[1] * n) \div f[2]

\* ------------------------------------------------------------- label files
\* A label file is a sequence of lines and a line a sequence of characters
\* (its newline left out).  os.stat(path).st_size: every line ends in a newline.
RECURSIVE StSize(_)
StSize(file) ==
    IF file = <<>> THEN 0 ELSE Len(Head(file)) + 1 + StSize(Tail(file))

Whitespace == {" ", "\t"}

\* str.rstrip()
RECURSIVE RStrip(_)
RStrip(line) ==
    IF line # <<>> /\ line[Len(line)] \in Whitespace
    THEN RStrip(SubSeq(line, 1, Len(line) - 1))
    ELSE line

CountOf(x, s) == Cardinality({i \in DOMAIN s : s[i] = x})

\* statistics.mode: the most common value, the first encountered among ties.
Mode(s) ==
    s[CHOOSE i \in DOMAIN s :
        /\ \A j \in DOMAIN s : CountOf(s[j], s) <= CountOf(s[i], s)
        /\ \A j \in 1..(i - 1) : CountOf(s[j], s) < CountOf(s[i], s)]

\* The placeholder of an empty label file.
Sentinel == "-1"

\* Lines 262-286 for one label file: its representative label, or the
\* IndexError of label.rstrip()[0] on a line that holds only whitespace.
LabelMode(file) ==
    IF StSize(file) # 0
    THEN IF \E k \in DOMAIN file : RStrip(file[k]) = <<>>
         THEN [err |-> "IndexError", mode |-> None]
         ELSE [err |-> None,
               mode |-> Mode([k \in DOMAIN file |-> RStrip(file[k])[1]])]
    ELSE [err |-> None, mode |-> Sentinel]

\* label_counts: a dict from label to the number of samples bearing it.
CountLabels(modes) == [l \in Range(modes) |-> CountOf(l, modes)]

\* ------------------------------------------- sklearn StratifiedShuffleSplit
\* A variant of ShuffleSizes that rounds the test size down, as the except
\* branch of set_split does.
ShuffleSizesFloor(n_samples, split) ==
    IF ~(FracLt(Zero, split) /\ FracLt(split, One))
    THEN [err |-> "ValueError", n_train |-> 0, n_test |-> 0]
    ELSE LET n_test == FloorMul(split, n_samples)
             n_train == n_samples - n_test
         IN  IF n_train = 0
             THEN [err |-> "ValueError", n_train |-> 0, n_test |-> n_test]
             ELSE [err |-> None, n_train |-> n_train, n_test |-> n_test]

\* _validate_shuffle_split(n_samples, test_size=split, train_size=None)
ShuffleSizes(n_samples, split) ==
    IF ~(FracLt(Zero, split) /\ FracLt(split, One))
    THEN [err |-> "ValueError", n_train |-> 0, n_test |-> 0]
    ELSE LET n_test == CeilMul(split, n_samples)
             n_train == n_samples - n_test
         IN  IF n_train = 0
             THEN [err |-> "ValueError", n_train |-> 0, n_test |-> n_test]
             ELSE [err |-> None, n_train |-> n_train, n_test |-> n_test]

\* _approximate_mode(class_counts, n_draws, rng): every class gets the floor
\* of its share and the classes with the largest remainders get one more;
\* rng.choice picks among equal remainders, so the result is a set.
ApproximateMode(class_counts, n_draws) ==
    LET C == DOMAIN class_counts
        total == SumOver(class_counts, C)
        floored == [c \in C |-> (class_counts[c] * n_draws) \div total]
        remainder == [c \in C |-> (class_counts[c] * n_draws) % total]
        need_to_add == n_draws - SumOver(floored, C)
        picks == {S \in SUBSET C :
                    /\ Cardinality(S) = need_to_add
                    /\ \A c \in S, d \in C \ S : remainder[c] >= remainder[d]}
    IN  {[c \in C |-> floored[c] + (IF c \in S THEN 1 ELSE 0)] : S \in picks}

\* A variant of StratifiedRaises that accepts a class with one member.
StratifiedAcceptsSingleton(class_counts, split) ==
    LET C == DOMAIN class_counts
        n_samples == SumOver(class_counts, C)
        sizes == ShuffleSizes(n_samples, split)
    IN  \/ n_samples = 0
        \/ sizes.err # None
        \/ sizes.n_train < Cardinality(C)
        \/ sizes.n_test < Cardinality(C)

\* The ValueErrors of StratifiedShuffleSplit.split on labels with these class
\* counts: no sample, test_size outside (0, 1), an empty train set, a class
\* with fewer than 2 members, fewer train or test samples than classes.
StratifiedRaises(class_counts, split) ==
    LET C == DOMAIN class_counts
        n_samples == SumOver(class_counts, C)
        sizes == ShuffleSizes(n_samples, split)
    IN  \/ n_samples = 0
        \/ sizes.err # None
        \/ \E c \in C : class_counts[c] < 2
        \/ sizes.n_train < Cardinality(C)
        \/ sizes.n_test < Cardinality(C)

\* The per-class numbers of train (n_i) and test (t_i) samples when
\* StratifiedShuffleSplit does not raise.
StratifiedCounts(class_counts, split) ==
    LET C == DOMAIN class_counts
        sizes == ShuffleSizes(SumOver(class_counts, C), split)
    IN  UNION {{[n_i |-> n, t_i |-> t] :
                  t \in ApproximateMode([c \in C |-> class_counts[c] - n[c]],
                                        sizes.n_test)} :
               n \in ApproximateMode(class_counts, sizes.n_train)}

ClassCounts(y) == [c \in Range(y) |-> CountOf(c, y)]

\* next(train_split.split(np.zeros(len(y)), y)): every (train_index,
\* valid_index) the shuffle can yield: per class n_i members to train and t_i
\* of the others to test, each side then permuted.
StratifiedIndexOutcomes(y, split) ==
    LET idx == 1..Len(y)
        cc == ClassCounts(y)
        InClass(S, c) == Cardinality({i \in S : y[i] = c})
        sides == {tv \in UNION {{<<T, V>> : V \in SUBSET (idx \ T)} : T \in SUBSET idx} :
                    \E o \in StratifiedCounts(cc, split) :
                        \A c \in DOMAIN cc :
                            /\ InClass(tv[1], c) = o.n_i[c]
                            /\ InClass(tv[2], c) = o.t_i[c]}
    IN  UNION {{<<tr, va>> : tr \in Perms(tv[1]), va \in Perms(tv[2])} : tv \in sides}

\* Lines 398-402: the random split of the except branch.
FallbackIndexOutcomes(n_samples, split) ==
    LET n_valid == FloorMul(split, n_samples)
    IN  {<<SubSeq(p, n_valid + 1, n_samples), SubSeq(p, 1, Min(n_valid, n_samples))>> :
           p \in Perms(1..n_samples)}

\* ------------------------------------------------------------------ set_split
\* Lines 391-402: which branch set_split takes, and the index arrays it can get.
SplitPath(src_label_idents, split) ==
    IF StratifiedRaises(ClassCounts(src_label_idents), split)
    THEN "fallback" ELSE "stratified"

SplitIndexOutcomes(src_images, src_label_idents, split) ==
    IF SplitPath(src_label_idents, split) = "fallback"
    THEN FallbackIndexOutcomes(Len(src_images), split)
    ELSE StratifiedIndexOutcomes(src_label_idents, split)

\* A variant of line 419 that takes the identifiers from the head of the
\* source list.
ValidIdentsFromHead(src_label_idents, valid_index) ==
    [k \in DOMAIN valid_index |-> src_label_idents[k]]

\* Lines 409 and 419: valid_idents.append(src_label_idents[i]) for i in valid_index.
ValidIdents(src_label_idents, valid_index) ==
    [k \in DOMAIN valid_index |-> src_label_idents[valid_index[k]]]

\* Lines 404-421: the five lists set_split returns for index arrays
\* index = <<train_index, valid_index>>, or the IndexError of a list too short.
Fill(src_images, src_labels, src_label_idents, index) ==
    LET train_index == index[1]
        valid_index == index[2]
        short == \/ \E k \in DOMAIN train_index :
                        \/ train_index[k] > Len(src_images)
                        \/ train_index[k] > Len(src_labels)
                 \/ \E k \in DOMAIN valid_index :
                        \/ valid_index[k] > Len(src_images)
                        \/ valid_index[k] > Len(src_labels)
                        \/ valid_index[k] > Len(src_label_idents)
    IN  IF short
        THEN [err |-> "IndexError", train_images |-> <<>>, valid_images |-> <<>>,
              train_labels |-> <<>>, valid_labels |-> <<>>, valid_idents |-> <<>>]
        ELSE [err |-> None,
              train_images |-> [k \in DOMAIN train_index |-> src_images[train_index[k]]],
              valid_images |-> [k \in DOMAIN valid_index |-> src_images[valid_index[k]]],
              train_labels |-> [k \in DOMAIN train_index |-> src_labels[train_index[k]]],
              valid_labels |-> [k \in DOMAIN valid_index |-> src_labels[valid_index[k]]],
              valid_idents |-> ValidIdents(src_label_idents, valid_index)]

\* ------------------------------------------------------------- the pruner
SortedDesc(S) ==
    LET a == SortedSeq(S) IN [k \in DOMAIN a |-> a[Len(a) + 1 - k]]

\* Line 231-234: the positions of the labels whose file has size 0.
EmptyPositions(fls, lbls) ==
    SortedSeq({i \in DOMAIN lbls : StSize(fls[lbls[i]]) = 0})

\* A variant of line 239 that lets one dump too many through.
DumpTooManyByTwo(n_dump, empty) == n_dump > Len(empty) + 1

\* Line 239
DumpTooMany(n_dump, empty) == n_dump > Len(empty)

\* Line 244: random.sample(population, k) raises ValueError when k is negative
\* or larger than the population.
SampleRaises(population, k) == k < 0 \/ k > Len(population)

\* Lines 248-250: del images[i]; del labels[i] for the targets, largest first.
RECURSIVE PurgeTargets(_, _, _)
PurgeTargets(desc, imgs, lbls) ==
    IF desc = <<>> THEN [err |-> None, images |-> imgs, labels |-> lbls]
    ELSE IF Head(desc) > Len(imgs)
         THEN [err |-> "IndexError", images |-> imgs, labels |-> lbls]
         ELSE PurgeTargets(Tail(desc), DelAt(imgs, Head(desc)), DelAt(lbls, Head(desc)))

\* A variant of line 295 that keeps a class one short of min_samples.
ProblemClassesOneShort(counts, min_examples) ==
    {l \in DOMAIN counts : counts[l] < min_examples - 1}

\* A variant of line 295 that takes one class with too few examples at a time.
ProblemClassesOneAtATime(counts, min_examples) ==
    LET few == {l \in DOMAIN counts : counts[l] < min_examples}
    IN  IF few = {} THEN {} ELSE {CHOOSE l \in few : TRUE}

\* Line 295: the classes with too few examples.
ProblemClasses(counts, min_examples) ==
    {l \in DOMAIN counts : counts[l] < min_examples}

\* Lines 308-311: del images[i]; del labels[i]; del label_modes[i], largest first.
RECURSIVE RemoveSamples(_, _, _, _)
RemoveSamples(desc, imgs, lbls, modes) ==
    IF desc = <<>>
    THEN [err |-> None, images |-> imgs, labels |-> lbls, label_modes |-> modes]
    ELSE IF Head(desc) > Len(imgs)
         THEN [err |-> "IndexError", images |-> imgs, labels |-> lbls, label_modes |-> modes]
         ELSE RemoveSamples(Tail(desc), DelAt(imgs, Head(desc)),
                            DelAt(lbls, Head(desc)), DelAt(modes, Head(desc)))

Digits == {"0", "1", "2", "3", "4", "5", "6", "7", "8", "9"}

\* Line 290: the sort key int(label) raises ValueError on a label that is no
\* number (the placeholder has its own key).
DistributionSortable(counts) ==
    \A l \in DOMAIN counts : l = Sentinel \/ l \in Digits

\* Line 72: int(line.split()[0]) of a line that is not blank, TRUE when it is
\* a number.  The first token runs to the first whitespace.
RECURSIVE LStrip(_)
LStrip(line) ==
    IF line # <<>> /\ Head(line) \in Whitespace THEN LStrip(Tail(line)) ELSE line

RECURSIVE FirstToken(_)
FirstToken(line) ==
    IF line = <<>> \/ Head(line) \in Whitespace THEN <<>>
    ELSE <<Head(line)>> \o FirstToken(Tail(line))

ClassIdParses(line) ==
    LET tok == FirstToken(LStrip(line))
        body == IF tok # <<>> /\ Head(tok) \in {"-", "+"} THEN Tail(tok) ELSE tok
    IN  body # <<>> /\ \A k \in DOMAIN body : body[k] \in Digits

\* Lines 65-74: get_class_names reads every file of all_labels; TRUE when no
\* line makes int() raise.
ClassNamesParse(fls) ==
    \A s \in DOMAIN fls : \A k \in DOMAIN fls[s] :
        LStrip(RStrip(fls[s][k])) = <<>> \/ ClassIdParses(fls[s][k])

\* ------------------------------------------------------------ directories
SourceDirs == {"all_images", "all_labels"}
Tree(d) == IF d = "train" THEN {"train", "train/images", "train/labels"}
           ELSE IF d = "valid" THEN {"valid", "valid/images", "valid/labels"}
           ELSE {"test", "test/images", "test/labels"}
SplitDirs == {"train", "valid", "test"}

\* ------------------------------------------------------------------ state
VARIABLES
    \* what the run is given
    files,          \* all_labels as listed: files[s] is the label file with stem s
    image_stems,    \* all_images as listed: the stems that have an image
    stem_names,     \* stem_names[s] is the file name of stem s without its extension
    args,           \* valid, test, n_dump, min_samples (lines 33-42)
    answer,         \* what the user types at the overwrite prompt, its characters
    fs0,            \* the directories that exist before the run
    \* the run
    pc,             \* where main() is, or how it ended
    fs,             \* the directories that exist
    images, labels, label_modes, label_counts,
    train_images, train_labels, valid_images, valid_labels,
    test_images, test_labels, temp_images, temp_labels, temp_modes,
    path1, path2,   \* the branch each set_split call took
    calls,          \* the arguments of every set_split call, in order
    copied,         \* <<directory, stem>> for every file copied
    log,            \* what the run printed
    \* the seeded generators: what random.sample (random.seed(1), line 21) and
    \* StratifiedShuffleSplit(random_state = 1) gave for an input, so that the
    \* same input gets the same answer in every run
    py_random, sk_random,
    \* a second run on the same input
    run, first,
    \* StratifiedShuffleSplit on class counts alone
    class_counts, test_size, strat

given == <<files, image_stems, stem_names, args, answer, fs0>>
pool == <<images, labels, label_modes, label_counts>>
outs == <<train_images, train_labels, valid_images, valid_labels,
          test_images, test_labels, temp_images, temp_labels, temp_modes>>
paths == <<path1, path2, calls>>
seeded == <<py_random, sk_random>>
runs == <<run, first>>
counting == <<class_counts, test_size, strat>>
vars == <<given, pc, fs, pool, outs, paths, copied, log, seeded, runs, counting>>

\* ------------------------------------------------------------------ inputs
\* Label files: empty, one object of class 0, one object of class 1.
Line0 == <<"0", " ", "b">>
Line1 == <<"1", " ", "b">>
Contents == {<<>>, <<Line0>>, <<Line1>>}

\* ord() of the characters file names are made of.
Ord(c) ==
    CASE c = "." -> 46
      [] c = "a" -> 97  [] c = "b" -> 98  [] c = "c" -> 99  [] c = "d" -> 100
      [] c = "e" -> 101 [] c = "f" -> 102 [] c = "g" -> 103 [] c = "j" -> 106
      [] c = "k" -> 107 [] c = "p" -> 112 [] c = "t" -> 116 [] c = "x" -> 120

\* s < t for two Python strings.
RECURSIVE StrLess(_, _)
StrLess(s, t) ==
    IF t = <<>> THEN FALSE
    ELSE IF s = <<>> THEN TRUE
    ELSE IF Head(s) = Head(t) THEN StrLess(Tail(s), Tail(t))
    ELSE Ord(Head(s)) < Ord(Head(t))

ImageExt == <<".", "j", "p", "g">>
LabelExt == <<".", "t", "x", "t">>

\* os.listdir() and list.sort() (lines 217-218 and 223-224): the stems S in
\* the order of their file names nm[s] + ext.
Listing(S, nm, ext) ==
    CHOOSE p \in Perms(S) :
        \A i, j \in DOMAIN p : i < j => StrLess(nm[p[i]] \o ext, nm[p[j]] \o ext)

\* The names of n stems, the stems numbered in the order of their label
\* files: a, b, c, ... or a.k, a, b, ... (a.k.txt sorts before a.txt, and
\* a.jpg before a.k.jpg).
PlainNames == <<<<"a">>, <<"b">>, <<"c">>, <<"d">>, <<"e">>, <<"f">>>>
NestedNames == <<<<"a", ".", "k">>, <<"a">>, <<"b">>, <<"c">>, <<"d">>, <<"e">>>>
NameLists(n) ==
    {SubSeq(PlainNames, 1, n)} \cup (IF n >= 2 THEN {SubSeq(NestedNames, 1, n)} ELSE {})

\* A pool of at most max label files: every label has its image and the
\* names are of either kind, or one label has no image and the names are
\* plain.  Every image has a label.
Pools(max) ==
    UNION {([1..n -> Contents] \X {1..n} \X NameLists(n))
           \cup ([1..n -> Contents] \X {(1..n) \ {s} : s \in 1..n}
                                    \X {SubSeq(PlainNames, 1, n)}) :
             n \in 0..max}

\* --valid and --test: 1/2 and 1/4 alone, 1/4 with 1/4, 1/8 with 3/4, and
\* 1/2 with 1/2 (which sum to 1).
Splits == {[valid |-> <<1, 2>>, test |-> Absent],
           [valid |-> <<1, 4>>, test |-> Absent],
           [valid |-> <<1, 4>>, test |-> Given(<<1, 4>>)],
           [valid |-> <<1, 8>>, test |-> Given(<<3, 4>>)],
           [valid |-> <<1, 2>>, test |-> Given(<<1, 2>>)]}
DumpChoices == {Absent, Given(0), Given(1), Given(2)}
MinSamplesChoices == {1, 2}
\* The splits that are also run with --dump: 1/2 alone and 1/4 with 1/4.
DumpSplits == {sp \in Splits : \/ (sp.test = Absent /\ sp.valid = <<1, 2>>)
                                \/ sp.test = Given(<<1, 4>>)}
\* Every split without --dump, and the splits of DumpSplits with every --dump.
Arguments ==
    {[valid |-> sp.valid, test |-> sp.test, n_dump |-> d, min_samples |-> m] :
        sp \in Splits, d \in {Absent}, m \in MinSamplesChoices}
    \cup
    {[valid |-> sp.valid, test |-> sp.test, n_dump |-> d, min_samples |-> m] :
        sp \in DumpSplits, d \in DumpChoices, m \in MinSamplesChoices}

\* The output directory is new, or holds the train and valid trees of an
\* earlier run and the user answers n (InitDirs has the other answers).
Earlier == SourceDirs \cup {"out"} \cup Tree("train") \cup Tree("valid")
Environments == {<<SourceDirs, <<"y">>>>, <<Earlier, <<"n">>>>}

Started ==
    /\ pc = "start"
    /\ fs = fs0
    /\ images = <<>> /\ labels = <<>> /\ label_modes = <<>> /\ label_counts = <<>>
    /\ train_images = <<>> /\ train_labels = <<>>
    /\ valid_images = <<>> /\ valid_labels = <<>>
    /\ test_images = <<>> /\ test_labels = <<>>
    /\ temp_images = <<>> /\ temp_labels = <<>> /\ temp_modes = <<>>
    /\ path1 = "none" /\ path2 = "none" /\ calls = <<>>
    /\ copied = {}
    /\ log = <<>>

NotCounting == class_counts = <<>> /\ test_size = Zero /\ strat = {}

\* The two source directories are read when main() lists them (lines 217 and
\* 223); until then files and image_stems hold nothing.
Init ==
    /\ files = <<>> /\ image_stems = {} /\ stem_names = <<>>
    /\ args \in Arguments
    /\ \E e \in Environments : fs0 = e[1] /\ answer = e[2]
    /\ Started
    /\ py_random = {} /\ sk_random = {}
    /\ run = 1 /\ first = <<>>
    /\ NotCounting

\* ----------------------------------------------------------------- main()
Say(msg, n) == log' = Append(log, [msg |-> msg, n |-> n])

\* Lines 136-151.  Line 144 tests image_source_dir a second time.
CheckSource ==
    /\ pc = "start"
    /\ IF "all_images" \notin fs
       THEN /\ pc' = "FileNotFoundError"
            /\ UNCHANGED <<fs, log>>
       ELSE /\ pc' = "prompt"
            /\ fs' = fs \cup {"out"}
            /\ UNCHANGED log
    /\ UNCHANGED <<given, pool, outs, paths, copied, seeded, runs, counting>>

\* str.lower() on the letters an answer is made of.
LowerChar(c) ==
    CASE c = "Y" -> "y"
      [] c = "N" -> "n"
      [] c = "E" -> "e"
      [] c = "S" -> "s"
      [] OTHER -> c
Lower(s) == [i \in DOMAIN s |-> LowerChar(s[i])]

\* A variant of line 168 that goes on unless the answer is n.
DeclinedOnlyByN(a) == Lower(a) = <<"n">>

\* Line 168: input("Y/N?:").lower() != "y"
Declined(a) == Lower(a) # <<"y">>

\* Lines 164-186
OverwritePrompt ==
    /\ pc = "prompt"
    /\ IF fs \cap SplitDirs # {}
       THEN IF Declined(answer)
            THEN /\ pc' = "exit_declined"
                 /\ Say("EXITING", <<>>)
                 /\ UNCHANGED fs
            ELSE /\ pc' = "makedirs"
                 /\ fs' = fs \ (Tree("train") \cup Tree("valid") \cup Tree("test"))
                 /\ Say("CONTINUING", <<>>)
       ELSE /\ pc' = "makedirs"
            /\ UNCHANGED <<fs, log>>
    /\ UNCHANGED <<given, pool, outs, paths, copied, seeded, runs, counting>>

\* Lines 188-213
MakeDirs ==
    /\ pc = "makedirs"
    /\ fs' = fs \cup Tree("train") \cup Tree("valid")
                \cup (IF args.test # Absent THEN Tree("test") ELSE {})
    /\ pc' = "load"
    /\ UNCHANGED <<given, pool, outs, paths, copied, log, seeded, runs, counting>>

\* Lines 215-225.  A first run finds some pool in the two directories,
\* unless the initial state says what they hold; a second run finds the same
\* one.
LoadPool ==
    /\ pc = "load"
    /\ IF run = 1 /\ files = <<>>
       THEN \E pl \in Pools(MaxPool) :
               /\ files' = IF "all_labels" \in fs THEN pl[1] ELSE <<>>
               /\ image_stems' = pl[2]
               /\ stem_names' = pl[3]
       ELSE UNCHANGED <<files, image_stems, stem_names>>
    /\ images' = Listing(image_stems', stem_names', ImageExt)
    /\ IF "all_labels" \notin fs
       THEN /\ pc' = "FileNotFoundError"
            /\ UNCHANGED <<labels, log>>
       ELSE /\ pc' = "dump"
            /\ labels' = Listing(DOMAIN files', stem_names', LabelExt)
            /\ Say("Found images, labels", <<Cardinality(image_stems'), Len(files')>>)
    /\ UNCHANGED <<args, answer, fs0, fs, label_modes, label_counts, outs, paths,
                   copied, seeded, runs, counting>>

\* The answer a seeded generator gives for a key is the one it gave before.
SameAsBefore(memo, key, value) == \A m \in memo : m[1] = key => m[2] = value

\* Lines 227-250
DumpEmpty ==
    /\ pc = "dump"
    /\ IF args.n_dump = Absent
       THEN /\ pc' = "summarize"
            /\ UNCHANGED <<images, labels, log, py_random>>
       ELSE LET empty == EmptyPositions(files, labels)
            IN  IF DumpTooMany(args.n_dump[1], empty)
                THEN /\ pc' = "exit_dump"
                     /\ Say("ERROR: Number of empty dumps requested is greater", <<Len(empty)>>)
                     /\ UNCHANGED <<images, labels, py_random>>
                ELSE IF SampleRaises(empty, args.n_dump[1])
                THEN /\ pc' = "crash_dump"
                     /\ UNCHANGED <<images, labels, log, py_random>>
                ELSE \E targets \in {T \in SUBSET Range(empty) :
                                        Cardinality(T) = args.n_dump[1]} :
                        /\ SameAsBefore(py_random, <<empty, args.n_dump[1]>>, targets)
                        /\ py_random' = py_random \cup {<<<<empty, args.n_dump[1]>>, targets>>}
                        /\ LET r == PurgeTargets(SortedDesc(targets), images, labels)
                           IN  /\ images' = r.images
                               /\ labels' = r.labels
                               /\ pc' = IF r.err # None THEN "crash_dump" ELSE "summarize"
                        /\ Say("Removing empty labels", <<Cardinality(targets)>>)
    /\ UNCHANGED <<given, fs, label_modes, label_counts, outs, paths, copied,
                   sk_random, runs, counting>>

\* Lines 252-291
Summarize ==
    /\ pc = "summarize"
    /\ LET ms == [i \in DOMAIN labels |-> LabelMode(files[labels[i]])]
           bad == {i \in DOMAIN ms : ms[i].err # None}
           \* the positions the loop went through before the one that raised
           done == {i \in DOMAIN ms : \A j \in bad : i < j}
       IN  IF bad # {}
           THEN /\ pc' = "crash_summarize"
                /\ label_modes' = [i \in done |-> ms[i].mode]
                /\ label_counts' = CountLabels(label_modes')
           ELSE /\ label_modes' = [i \in DOMAIN ms |-> ms[i].mode]
                /\ label_counts' = CountLabels(label_modes')
                /\ pc' = IF DistributionSortable(label_counts')
                         THEN "filter" ELSE "crash_summarize"
    /\ UNCHANGED <<given, fs, images, labels, outs, paths, copied, log,
                   seeded, runs, counting>>

\* A variant of lines 315-320 that keeps the histogram of before the removal.
StaleCounts(counts, modes) == counts

\* Lines 315-320: label_counts is counted again from the label_modes left.
UpdatedCounts(counts, modes) == CountLabels(modes)

\* A variant of main in which the filter's block also stands between the
\* two set_split calls.
FilterStagesLate == {"filter", "split2"}

\* Where lines 293-324 stand in main: after the summary, before line 326.
FilterStages == {"filter"}

\* Lines 294-320: what one pass of the filter makes of the three lists and
\* the histogram, and the positions it removes.
FilterPass(imgs, lbls, modes, counts, min_examples) ==
    LET problem_classes == ProblemClasses(counts, min_examples)
        indices_to_remove == {i \in DOMAIN modes : modes[i] \in problem_classes}
        r == RemoveSamples(SortedDesc(indices_to_remove), imgs, lbls, modes)
    IN  IF problem_classes = {}
        THEN [err |-> None, problem_classes |-> {}, indices_to_remove |-> {},
              images |-> imgs, labels |-> lbls, label_modes |-> modes,
              label_counts |-> counts]
        ELSE [err |-> r.err, problem_classes |-> problem_classes,
              indices_to_remove |-> indices_to_remove,
              images |-> r.images, labels |-> r.labels, label_modes |-> r.label_modes,
              label_counts |-> IF r.err # None THEN counts
                               ELSE UpdatedCounts(counts, r.label_modes)]

\* Lines 293-324
FilterMinSamples ==
    /\ pc \in FilterStages
    /\ LET f == FilterPass(images, labels, label_modes, label_counts, args.min_samples)
       IN  /\ images' = f.images
           /\ labels' = f.labels
           /\ label_modes' = f.label_modes
           /\ label_counts' = f.label_counts
           /\ pc' = IF f.err # None THEN "crash_filter" ELSE "split"
           /\ IF f.problem_classes = {} \/ f.err # None
              THEN UNCHANGED log
              ELSE Say("Removed images with insufficient class samples",
                       <<Cardinality(f.indices_to_remove)>>)
    /\ UNCHANGED <<given, fs, outs, paths, copied, seeded, runs, counting>>

\* Lines 335-336
TotalPer == FracAdd(args.valid, args.test[1])
TestPer == FracDiv(args.test[1], TotalPer)

\* Line 390: the arguments of one set_split call.
Call(src_images, src_labels, src_label_idents, split) ==
    [src_images |-> src_images, src_labels |-> src_labels,
     src_label_idents |-> src_label_idents, split |-> split]

\* A variant of lines 404-421 that takes the held-out samples out of the
\* source list as it fills valid_*.
SourceDrained(src, index) ==
    LET keep == {i \in DOMAIN src : \A k \in DOMAIN index[2] : index[2][k] # i}
        order == SortedSeq(keep)
    IN  [k \in DOMAIN order |-> src[order[k]]]

\* Lines 404-421: the loops read src_images[i], src_labels[i] and
\* src_label_idents[i] and append to new lists; a source list is after the
\* call what it was before.
SourceAfter(src, index) == src

Remember(memo, path, key, index) ==
    IF path = "stratified" THEN memo \cup {<<key, index>>} ELSE memo

\* Lines 326-331, and 339 when --test is given: the first set_split call.
\* The lists come in the order of the index arrays.
SplitStage1 ==
    /\ pc = "split"
    /\ LET split == IF args.test = Absent THEN args.valid ELSE TotalPer
           path == SplitPath(label_modes, split)
           started == [msg |-> "Performing stratified split", n |-> <<>>]
       IN  \E index \in SplitIndexOutcomes(images, label_modes, split) :
             LET r == Fill(images, labels, label_modes, index)
             IN  /\ path = "stratified" =>
                        SameAsBefore(sk_random, <<label_modes, split>>, index)
                 /\ sk_random' = Remember(sk_random, path, <<label_modes, split>>, index)
                 /\ path1' = path
                 /\ calls' = Append(calls, Call(images, labels, label_modes, split))
                 /\ IF r.err # None
                    THEN /\ pc' = "crash_split"
                         /\ log' = Append(log, started)
                         /\ UNCHANGED outs
                    ELSE /\ train_images' = r.train_images
                         /\ train_labels' = r.train_labels
                         /\ IF args.test = Absent
                            THEN /\ valid_images' = r.valid_images
                                 /\ valid_labels' = r.valid_labels
                                 /\ pc' = "copy"
                                 /\ log' = log \o <<started,
                                        [msg |-> "Split completed",
                                         n |-> <<Len(r.train_images), Len(r.valid_images)>>]>>
                                 /\ UNCHANGED <<temp_images, temp_labels, temp_modes>>
                            ELSE /\ temp_images' = r.valid_images
                                 /\ temp_labels' = r.valid_labels
                                 /\ temp_modes' = r.valid_idents
                                 /\ pc' = "split2"
                                 /\ log' = Append(log, started)
                                 /\ UNCHANGED <<valid_images, valid_labels>>
                         /\ UNCHANGED <<test_images, test_labels>>
                 /\ images' = SourceAfter(images, index)
                 /\ labels' = SourceAfter(labels, index)
                 /\ label_modes' = SourceAfter(label_modes, index)
    /\ UNCHANGED <<given, fs, label_counts, path2, copied, py_random, runs, counting>>

\* Lines 340-341: the second set_split call, on what the first held out.
SplitStage2 ==
    /\ pc = "split2"
    /\ LET path == SplitPath(temp_modes, TestPer)
       IN  \E index \in SplitIndexOutcomes(temp_images, temp_modes, TestPer) :
             LET r == Fill(temp_images, temp_labels, temp_modes, index)
             IN  /\ path = "stratified" =>
                        SameAsBefore(sk_random, <<temp_modes, TestPer>>, index)
                 /\ sk_random' = Remember(sk_random, path, <<temp_modes, TestPer>>, index)
                 /\ path2' = path
                 /\ calls' = Append(calls, Call(temp_images, temp_labels, temp_modes, TestPer))
                 /\ temp_images' = SourceAfter(temp_images, index)
                 /\ temp_labels' = SourceAfter(temp_labels, index)
                 /\ temp_modes' = SourceAfter(temp_modes, index)
                 /\ IF r.err # None
                    THEN /\ pc' = "crash_split"
                         /\ UNCHANGED <<train_images, train_labels, valid_images,
                                        valid_labels, test_images, test_labels, log>>
                    ELSE /\ valid_images' = r.train_images
                         /\ valid_labels' = r.train_labels
                         /\ test_images' = r.valid_images
                         /\ test_labels' = r.valid_labels
                         /\ pc' = "copy"
                         /\ Say("Split completed",
                                <<Len(train_images), Len(r.train_images), Len(r.valid_images)>>)
                         /\ UNCHANGED <<train_images, train_labels>>
    /\ UNCHANGED <<given, fs, pool, path1, copied, py_random, runs, counting>>

CopiesTo(dir, names) == {<<dir, names[k]>> : k \in DOMAIN names}

\* A variant of lines 343-358 that also copies what the first of two
\* set_split calls returned, before the second call.
CopyFilesAfterFirstCall ==
    /\ pc \in {"copy", "split2"}
    /\ copied' = CopiesTo("train/images", train_images) \cup CopiesTo("train/labels", train_labels)
                 \cup CopiesTo("valid/images", valid_images) \cup CopiesTo("valid/labels", valid_labels)
                 \cup (IF args.test # Absent
                       THEN CopiesTo("test/images", test_images) \cup CopiesTo("test/labels", test_labels)
                       ELSE {})
    /\ pc' = IF pc = "split2" THEN "split2" ELSE "yaml"
    /\ UNCHANGED <<given, fs, pool, outs, paths, log, seeded, runs, counting>>

\* Lines 343-358
CopyFiles ==
    /\ pc = "copy"
    /\ copied' = CopiesTo("train/images", train_images) \cup CopiesTo("train/labels", train_labels)
                 \cup CopiesTo("valid/images", valid_images) \cup CopiesTo("valid/labels", valid_labels)
                 \cup (IF args.test # Absent
                       THEN CopiesTo("test/images", test_images) \cup CopiesTo("test/labels", test_labels)
                       ELSE {})
    /\ pc' = "yaml"
    /\ UNCHANGED <<given, fs, pool, outs, paths, log, seeded, runs, counting>>

\* Lines 360-388
WriteYaml ==
    /\ pc = "yaml"
    /\ IF ClassNamesParse(files)
       THEN /\ pc' = "done"
            /\ fs' = fs \cup {"data.yaml", "test.yaml"}
            /\ Say("Dataset split completed successfully",
                   <<Len(train_images), Len(valid_images), Len(test_images)>>)
       ELSE /\ pc' = "crash_yaml"
            /\ UNCHANGED <<fs, log>>
    /\ UNCHANGED <<given, pool, outs, paths, copied, seeded, runs, counting>>

Next ==
    \/ CheckSource
    \/ OverwritePrompt
    \/ MakeDirs
    \/ LoadPool
    \/ DumpEmpty
    \/ Summarize
    \/ FilterMinSamples
    \/ SplitStage1
    \/ SplitStage2
    \/ CopyFiles
    \/ WriteYaml

Spec == Init /\ [][Next]_vars

\* ------------------------------------------------------- a second run
Ended == pc \in {"done", "FileNotFoundError", "exit_declined", "exit_dump",
                 "crash_dump", "crash_summarize", "crash_filter", "crash_split",
                 "crash_yaml"}

\* What a run hands over: how it ended and the identifier sets of its splits.
Outcome ==
    [pc |-> pc,
     train |-> Range(train_images) \cup Range(train_labels),
     valid |-> Range(valid_images) \cup Range(valid_labels),
     test |-> Range(test_images) \cup Range(test_labels)]

\* The random choices of a run: the labels random.sample took for the dump
\* (line 244) and what each set_split call kept and held out (lines 393-402).
Choices ==
    [dump |-> UNION {m[2] : m \in py_random},
     first_call |-> <<Range(train_labels),
                      Range(IF args.test = Absent THEN valid_labels ELSE temp_labels)>>,
     second_call |-> <<Range(IF args.test = Absent THEN <<>> ELSE valid_labels),
                       Range(test_labels)>>]

\* The script is started again on the same directories with the same
\* arguments: a new process, so random.seed(1) and random_state = 1 give what
\* they gave, and numpy's global generator is seeded afresh. The directories
\* are those the first run started on.
Rerun ==
    /\ Ended
    /\ run = 1
    /\ UNCHANGED <<given, seeded, counting>>
    /\ run' = 2
    /\ first' = <<Outcome, Choices>>
    /\ pc' = "start"
    /\ fs' = fs0
    /\ images' = <<>> /\ labels' = <<>> /\ label_modes' = <<>>
    /\ label_counts' = <<>>
    /\ train_images' = <<>> /\ train_labels' = <<>>
    /\ valid_images' = <<>> /\ valid_labels' = <<>>
    /\ test_images' = <<>> /\ test_labels' = <<>>
    /\ temp_images' = <<>> /\ temp_labels' = <<>> /\ temp_modes' = <<>>
    /\ path1' = "none" /\ path2' = "none" /\ calls' = <<>>
    /\ copied' = {}
    /\ log' = <<>>

NextTwice == Next \/ Rerun

\* Two runs that keep every class (--min_samples 1) into a new output directory.
\* Two runs are made on a pool of at most MaxPoolTwice label files, with a
\* split of DumpSplits, without --dump or with --dump 1.
InitTwice ==
    /\ \E pl \in Pools(MaxPoolTwice) :
          pl[1] # <<>> /\ files = pl[1] /\ image_stems = pl[2] /\ stem_names = pl[3]
    /\ args \in {a \in Arguments : /\ a.min_samples = 1
                                   /\ a.n_dump \in {Absent, Given(1)}
                                   /\ \E sp \in DumpSplits :
                                         a.valid = sp.valid /\ a.test = sp.test}
    /\ fs0 = SourceDirs /\ answer = <<"y">>
    /\ Started
    /\ py_random = {} /\ sk_random = {}
    /\ run = 1 /\ first = <<>>
    /\ NotCounting

SpecTwice == InitTwice /\ [][NextTwice]_vars

\* ------------------------------------------------- lines of label files
\* Lines of a label file: an object of class 0, of class 1, of class 10, a
\* line whose first token is no number, and a blank line.
Line10 == <<"1", "0", " ", "b">>
LineX == <<"x", " ", "b">>
Blank == <<>>
Lines == {Line0, Line1, Line10, LineX, Blank}

\* Label files of at most max lines.
LabelFiles(max) == UNION {[1..n -> Lines] : n \in 0..max}

\* all_labels holds one label file of these lines, alone or followed by a
\* file of Contents; every label has its image.  No --dump, --min_samples 1.
InitLines ==
    /\ \E f \in LabelFiles(MaxLines) :
          \/ files = <<f>>
          \/ \E g \in Contents : files = <<f, g>> \/ files = <<g, f>>
    /\ image_stems = DOMAIN files
    /\ stem_names = SubSeq(PlainNames, 1, Len(files))
    /\ args \in Arguments /\ args.n_dump = Absent /\ args.min_samples = 1
    /\ fs0 = SourceDirs /\ answer = <<"y">>
    /\ Started
    /\ py_random = {} /\ sk_random = {}
    /\ run = 1 /\ first = <<>>
    /\ NotCounting

SpecLines == InitLines /\ [][Next]_vars

\* ------------------------------------------- stratification on class counts
Classes == {"0", "1"}
Fractions == {<<1, 8>>, <<1, 4>>, <<1, 2>>, <<3, 4>>}

InitCounts ==
    /\ \E v \in [Classes -> 0..MaxCount] :
          class_counts = [c \in {d \in Classes : v[d] > 0} |-> v[c]]
    /\ test_size \in Fractions
    /\ strat = {}
    /\ files = <<>> /\ image_stems = {} /\ stem_names = <<>>
    /\ fs0 = SourceDirs /\ answer = <<"y">>
    /\ args = [valid |-> test_size, test |-> Absent, n_dump |-> Absent, min_samples |-> 1]
    /\ Started
    /\ py_random = {} /\ sk_random = {}
    /\ run = 1 /\ first = <<>>

\* Lines 393-395 on labels with the class counts class_counts.
Stratify ==
    /\ strat = {}
    /\ ~StratifiedRaises(class_counts, test_size)
    /\ \E o \in StratifiedCounts(class_counts, test_size) : strat' = {o}
    /\ UNCHANGED <<given, pc, fs, pool, outs, paths, copied, log, seeded, runs,
                   class_counts, test_size>>

SpecCounts == InitCounts /\ [][Stratify]_vars

\* ------------------------------------------- directories and answers
\* What can be there before a run: the source directories or one of them
\* only, nothing or the trees of an earlier run in the output directory; and
\* what the user can type at the prompt.
Befores ==
    {SourceDirs, Earlier, Earlier \cup Tree("test"),
     SourceDirs \cup {"out"} \cup Tree("test"),
     {"all_images"}, {"all_images", "out"} \cup Tree("train") \cup Tree("valid"),
     {"all_labels"}}
Answers == {<<"y">>, <<"Y">>, <<"n">>, <<"N">>, <<"y", "e", "s">>, <<>>}

InitDirs ==
    /\ files = <<>> /\ image_stems = {} /\ stem_names = <<>>
    /\ args \in {a \in Arguments : /\ a.n_dump = Absent /\ a.min_samples = 1
                                   /\ \E sp \in DumpSplits :
                                         a.valid = sp.valid /\ a.test = sp.test}
    /\ fs0 \in Befores
    /\ answer \in Answers
    /\ fs0 \cap SplitDirs = {} => answer = <<"y">>
    /\ Started
    /\ py_random = {} /\ sk_random = {}
    /\ run = 1 /\ first = <<>>
    /\ NotCounting

SpecDirs == InitDirs /\ [][Next]_vars

\* ================================================================== claims
Abs(x) == IF x < 0 THEN -x ELSE x

\* The first set_split call has returned.
Returned1 == path1 # "none" /\ ~(pc = "crash_split" /\ path2 = "none")
\* The second set_split call has returned.
Returned2 == path2 # "none" /\ pc # "crash_split"
\* What the first call held out.
held_images == IF args.test = Absent THEN valid_images ELSE temp_images
held_labels == IF args.test = Absent THEN valid_labels ELSE temp_labels
\* The fraction the first call is given.
Split1 == IF args.test = Absent THEN args.valid ELSE TotalPer

\* kept and held are disjoint, repeat nothing and together are exactly src.
Partitions(kept, held, src) ==
    /\ NoDuplicates(kept \o held)
    /\ Range(kept) \cup Range(held) = Range(src)
    /\ Len(kept) + Len(held) = Len(src)

\* C1: every set_split call that returns gives a kept and a held-out set that
\* are disjoint and whose union is exactly the pool it was given (labels and
\* images), on both branches; in two-way mode |train| + |validation| is the
\* size of the pruned pool.
C1_SplitPartitionsPool ==
    /\ Returned1 =>
          /\ Partitions(train_labels, held_labels, labels)
          /\ Partitions(train_images, held_images, images)
    /\ Returned2 =>
          /\ Partitions(valid_labels, test_labels, temp_labels)
          /\ Partitions(valid_images, test_images, temp_images)

\* C2: in three-way mode the final train, validation and test sets are
\* pairwise disjoint and their union is exactly the pruned pool.
C2_ThreeWayPartitionsPool ==
    (args.test # Absent /\ pc \in {"copy", "yaml", "done"}) =>
        /\ NoDuplicates(train_labels \o valid_labels \o test_labels)
        /\ Range(train_labels) \cup Range(valid_labels) \cup Range(test_labels)
               = Range(labels)

\* The filter has run to its end.
Pruned == pc \in {"split", "split2", "copy", "yaml", "done", "crash_split", "crash_yaml"}

\* C3: after the Class Pruner has run, every sample still in the pool has a
\* representative label whose count in the post-pruning histogram, and in the
\* pool, is at least min_samples.
C3_RetainedClassesReachMin ==
    Pruned =>
        /\ Len(label_modes) = Len(labels)
        /\ \A i \in DOMAIN labels :
              /\ label_modes[i] = LabelMode(files[labels[i]]).mode
              /\ label_modes[i] \in DOMAIN label_counts
              /\ label_counts[label_modes[i]] >= args.min_samples
              /\ CountOf(label_modes[i], label_modes) >= args.min_samples

\* A pool from which the filter removed a class and kept another.
C3_Witness ==
    /\ pc = "split"
    /\ labels # <<>>
    /\ \E k \in DOMAIN log : log[k].msg = "Removed images with insufficient class samples"

\* C4: two runs on the same pool with the same arguments end the same way
\* with the same train, validation and test identifier sets.
C4_SameOutcomeTwice ==
    (run = 2 /\ Ended) => Outcome = first[1]

\* The number of label files of size 0 in all_labels.
EmptyLabels == Cardinality({s \in DOMAIN files : StSize(files[s]) = 0})

\* The pool has been listed and the dump stage is over.
Dumped == pc \in {"exit_dump", "crash_dump", "summarize", "crash_summarize", "filter",
                  "crash_filter"} \/ Pruned

\* C5: when n_dump is greater than the number of empty-label samples the run
\* ends at the dump's error exit with the pool as listed, no set_split call
\* and no file copied.
C5_TooManyDumpsAborts ==
    (Dumped /\ args.n_dump # Absent /\ args.n_dump[1] > EmptyLabels) =>
        /\ pc = "exit_dump"
        /\ labels = Listing(DOMAIN files, stem_names, LabelExt)
        /\ images = Listing(image_stems, stem_names, ImageExt)
        /\ path1 = "none" /\ path2 = "none"
        /\ train_labels = <<>> /\ valid_labels = <<>> /\ test_labels = <<>>
        /\ copied = {}

\* Two dumps asked of a pool with one empty label.
C5_Witness ==
    /\ pc = "exit_dump"
    /\ EmptyLabels = 1
    /\ args.n_dump = Given(2)

\* C6: when the run ends at the dump's error exit the directories are as
\* they were before the run.
C6_AbortLeavesDirectories ==
    pc = "exit_dump" => fs = fs0

\* C7: with --valid + --test >= 1 no set_split call happens, nothing is
\* copied and the run never completes.
C7_SumAtLeastOneRejected ==
    (args.test # Absent /\ FracLe(One, TotalPer)) =>
        /\ path1 = "none"
        /\ copied = {}
        /\ pc # "done"

HasSingleton(y) == \E i \in DOMAIN y : CountOf(y[i], y) = 1
InUnit(f) == FracLt(Zero, f) /\ FracLt(f, One)

\* C8: a set_split call on a pool in which some class has exactly one member,
\* with a fraction in (0, 1), takes the fallback branch and returns.
C8_SingletonFallsBack ==
    /\ (path1 # "none" /\ HasSingleton(label_modes) /\ InUnit(Split1)) =>
          path1 = "fallback" /\ Returned1
    /\ (path2 # "none" /\ HasSingleton(temp_modes)) =>
          path2 = "fallback" /\ Returned2

\* A two-way split of a pool with a class of one, and a three-way one whose
\* second call gets a class of one.
C8_Witness ==
    /\ pc = "copy"
    /\ \/ args.test = Absent /\ HasSingleton(label_modes) /\ path1 = "fallback"
             /\ valid_labels # <<>>
       \/ args.test # Absent /\ HasSingleton(temp_modes) /\ path2 = "fallback"
             /\ path1 = "stratified"

\* Lines 396-402: the messages the except branch of set_split prints. It has
\* no print, and line 326 prints "Performing stratified split" before either
\* branch is taken.
FallbackNotices == {}

\* C9: a run that completes after a set_split call took the fallback branch
\* has printed that it did.
C9_FallbackIsReported ==
    (pc = "done" /\ "fallback" \in {path1, path2}) =>
        \E k \in DOMAIN log : log[k].msg \in FallbackNotices

\* The labels counted in class_counts, n of them.
NSamples == SumOver(class_counts, DOMAIN class_counts)

\* C10 as stated: on the stratified branch the number of samples of every
\* class in the held-out set differs from f * n_c by less than one.
C10_WithinOneOfFraction ==
    \A o \in strat : \A c \in DOMAIN class_counts :
        Abs(o.t_i[c] * test_size[2] - test_size[1] * class_counts[c]) < test_size[2]

\* C10 amended: on the stratified branch the number of samples of every class
\* in the held-out set differs by less than one from n_c * ceil(f * n) / n, the
\* class's share of the ceil(f * n) held-out samples, and so by less than two
\* from f * n_c; the held-out sets of all classes have ceil(f * n) samples.
C10_WithinOneOfShare ==
    \A o \in strat :
        /\ \A c \in DOMAIN class_counts :
              /\ Abs(o.t_i[c] * NSamples - class_counts[c] * CeilMul(test_size, NSamples))
                    < NSamples
              /\ Abs(o.t_i[c] * test_size[2] - test_size[1] * class_counts[c])
                    < 2 * test_size[2]
              /\ o.n_i[c] + o.t_i[c] = class_counts[c]
        /\ SumOver(o.t_i, DOMAIN class_counts) = CeilMul(test_size, NSamples)

\* Two classes whose shares of the held-out samples are no whole numbers.
C10_Witness ==
    \E o \in strat :
        /\ Cardinality(DOMAIN class_counts) = 2
        /\ \A c \in DOMAIN class_counts :
              (class_counts[c] * CeilMul(test_size, NSamples)) % NSamples # 0

\* ---------------------------------------------------------------- C11
FracEq(a, b) == a[1] * b[2] = b[1] * a[2]
FracMul(a, b) == <<a[1] * b[1], a[2] * b[2]>>

\* C11: with --test the run calls set_split at most twice and, when both
\* calls have returned, exactly twice: first on the whole pruned pool with
\* f = valid + test, giving (train, rest), then on exactly that rest with
\* f = test / (valid + test), giving (validation, test); the test set then
\* has test_fraction of the pool within the two roundings, that is within
\* less than two samples.
C11_TwoStagesOnRest ==
    args.test # Absent =>
        /\ Len(calls) <= 2
        /\ (Len(calls) = 0) = (path1 = "none")
        /\ (Len(calls) = 2) = (path2 # "none")
        /\ Len(calls) >= 1 =>
              /\ calls[1].src_images = images
              /\ calls[1].src_labels = labels
              /\ calls[1].src_label_idents = label_modes
              /\ FracEq(calls[1].split, FracAdd(args.valid, args.test[1]))
        /\ Len(calls) = 2 =>
              /\ calls[2].src_images = temp_images
              /\ calls[2].src_labels = temp_labels
              /\ calls[2].src_label_idents = temp_modes
              /\ FracEq(FracMul(calls[2].split, FracAdd(args.valid, args.test[1])),
                        args.test[1])
        /\ pc \in {"copy", "yaml", "done", "crash_yaml"} =>
              /\ Len(calls) = 2
              /\ Abs(Len(test_labels) * args.test[1][2] - args.test[1][1] * Len(labels))
                    < 2 * args.test[1][2]

\* ---------------------------------------------------------------- C12
\* C12: when a set_split call raises an error its except clause does not
\* catch, the run has ended with no file copied and no dataset description
\* written; a file is copied only after every set_split call of the mode
\* (one without --test, two with it) has returned.
C12_NoCopyBeforeSplitsReturn ==
    /\ pc = "crash_split" =>
          /\ copied = {}
          /\ "data.yaml" \notin fs
          /\ ~ENABLED Next
    /\ copied # {} =>
          /\ Returned1
          /\ args.test # Absent => Returned2
          /\ Len(calls) = IF args.test = Absent THEN 1 ELSE 2

\* The first call ran stratified and raised IndexError while filling its
\* lists: a label of the pool has no image.
C12_Witness ==
    /\ pc = "crash_split"
    /\ path1 = "stratified"
    /\ Len(images) < Len(labels)

\* ---------------------------------------------------------------- C13
\* A line that holds an object: something besides whitespace.
IsObject(line) == LStrip(RStrip(line)) # <<>>
\* An object line whose first whitespace-delimited token is no number.
NonNumeric(line) == IsObject(line) /\ ~ClassIdParses(line)
\* Summarization is over and the run has gone on.
Summarized == pc \in {"filter", "crash_filter"} \/ Pruned

\* C13: when a line of a label file of the pool has a non-numeric first
\* token, the run ends in summarization with an error: it never goes on to
\* the filter, no set_split call happens and no file is copied.
C13_NonNumericTokenAborts ==
    (\E s \in DOMAIN files : \E k \in DOMAIN files[s] : NonNumeric(files[s][k])) =>
        /\ ~Summarized
        /\ path1 = "none"
        /\ copied = {}

\* ---------------------------------------------------------------- C14
\* The class index of every line of a record: its first token, whole.
ClassIndices(file) == [k \in DOMAIN file |-> FirstToken(LStrip(file[k]))]
\* The labels of the pool are summarized, one per label file still listed.
HasModes == Summarized /\ Len(label_modes) = Len(labels)

\* C14: the representative label of a record with at least one object is the
\* statistical mode of the class indices of its lines, a class index being
\* the whole first token of a line (so 1 and 10 are different classes).
C14_LabelIsModeOfTokens ==
    HasModes =>
        \A i \in DOMAIN labels :
            LET file == files[labels[i]]
            IN  (\E k \in DOMAIN file : IsObject(file[k])) =>
                    <<label_modes[i]>> = Mode(ClassIndices(file))

\* ---------------------------------------------------------------- C15
\* The class indices that share the highest count of a record.
Tied(file) ==
    LET ci == ClassIndices(file)
    IN  {ci[k] : k \in {j \in DOMAIN ci :
                          \A m \in DOMAIN ci : CountOf(ci[m], ci) <= CountOf(ci[j], ci)}}
\* The first line of a record whose class index is one of the tied ones.
FirstTied(file) ==
    LET ci == ClassIndices(file)
    IN  ci[CHOOSE k \in DOMAIN ci :
              /\ ci[k] \in Tied(file)
              /\ \A j \in 1..(k - 1) : ci[j] \notin Tied(file)]

\* C15: when several class indices share the highest count of a record, its
\* representative label is the tied class index that comes first in the
\* record's lines.
C15_TieGoesToFirstLine ==
    HasModes =>
        \A i \in DOMAIN labels :
            LET file == files[labels[i]]
            IN  (file # <<>> /\ Cardinality(Tied(file)) > 1) =>
                    <<label_modes[i]>> = FirstTied(file)

\* ---------------------------------------------------------------- C16
\* A record with zero objects: no line, or blank lines only.
NoObjects(file) == \A k \in DOMAIN file : ~IsObject(file[k])

\* C16: a sample's representative label is the placeholder exactly when its
\* record has zero objects, and a pool whose records all have zero objects
\* is summarized without an error.
C16_SentinelIffNoObjects ==
    /\ HasModes =>
          \A i \in DOMAIN labels :
              (label_modes[i] = Sentinel) = NoObjects(files[labels[i]])
    /\ (\A s \in DOMAIN files : NoObjects(files[s])) => pc # "crash_summarize"

\* ---------------------------------------------------------------- C17
\* The dump is over and the filter has not run: the pool is what the dump
\* left.
AfterDump == pc \in {"crash_dump", "summarize", "crash_summarize", "filter"}
\* The stems of the label files the run has taken out of the pool.
RemovedStems == DOMAIN files \ Range(labels)

\* C17: when 0 <= n_dump <= number of empty labels, the dump takes exactly
\* n_dump samples out of the pool, each an empty-label sample, and every
\* other sample stays: its label and, when it has one, its image.
C17_DumpRemovesEmptySamples ==
    (AfterDump /\ args.n_dump # Absent /\ args.n_dump[1] <= EmptyLabels) =>
        /\ pc # "crash_dump"
        /\ IsAscending(labels) /\ Range(labels) \subseteq DOMAIN files
        /\ Cardinality(RemovedStems) = args.n_dump[1]
        /\ \A s \in RemovedStems : StSize(files[s]) = 0
        /\ Range(images) = image_stems \ RemovedStems
        /\ IsAscending(images)

\* ---------------------------------------------------------------- C18
\* The filter has run, to its end or to an error.
AfterFilter == Pruned \/ pc = "crash_filter"
\* The stems the dump of this run took out: the positions random.sample gave
\* are stems, the listing being <<1, ..., Len(files)>> when the dump runs.
DumpedStems == UNION {m[2] : m \in py_random}
\* The pool the filter is given and the histogram of its labels.
BeforeFilter == DOMAIN files \ DumpedStems
ModeOf(s) == LabelMode(files[s]).mode
HistogramCount(c) == Cardinality({s \in BeforeFilter : ModeOf(s) = c})

\* C18: the minimum-sample filter removes exactly the samples whose
\* representative label has a count below min_samples in the histogram:
\* every sample of a class with count >= min_samples stays, with its image
\* when it has one, and every sample of a class with a lower count goes.
C18_FilterRemovesExactlyRareClasses ==
    AfterFilter =>
        /\ pc # "crash_filter"
        /\ IsAscending(labels)
        /\ Range(labels) = {s \in BeforeFilter :
                               HistogramCount(ModeOf(s)) >= args.min_samples}
        /\ Range(images) = image_stems \cap Range(labels)
        /\ IsAscending(images)

\* ---------------------------------------------------------------- C19
\* The two directories are listed: images and labels are the pool.  That
\* is so from line 225 on, the exit of line 241 included.
Listed == pc \in {"dump", "exit_dump"} \/ AfterDump \/ AfterFilter

\* C19: whatever the dump and the filter remove, an image is in the pool
\* exactly when the label of its stem is: a label leaves with the image of
\* its own stem and the image of a retained label stays.
C19_ImageLeavesWithItsLabel ==
    Listed => Range(images) = image_stems \cap Range(labels)

\* ---------------------------------------------------------------- C20
\* The split lists are final: copying can start.
Assigned == pc \in {"copy", "yaml", "done", "crash_yaml"}

\* C20: the image and the label of every stem that has both are assigned to
\* the same split: train, validation or test.
C20_ImageAndLabelInSameSplit ==
    Assigned =>
        \A s \in image_stems \cap DOMAIN files :
            /\ (s \in Range(train_images)) = (s \in Range(train_labels))
            /\ (s \in Range(valid_images)) = (s \in Range(valid_labels))
            /\ (s \in Range(test_images)) = (s \in Range(test_labels))

\* ---------------------------------------------------------------- C21
\* Summarization is over and set_split has not been called.
BetweenSummaryAndSplit == pc \in {"filter", "split"}

\* C21: from the end of summarization to the first set_split call every
\* sample of the pool has one representative label, that of its label file,
\* the histogram has one entry per label present, each the number of samples
\* of the pool with that label, and the entries sum to the pool size; so it
\* is after the filter, whether it removed samples or none.
C21_HistogramCountsThePool ==
    BetweenSummaryAndSplit =>
        /\ Len(label_modes) = Len(labels)
        /\ \A i \in DOMAIN labels : label_modes[i] = ModeOf(labels[i])
        /\ DOMAIN label_counts = Range(label_modes)
        /\ \A c \in DOMAIN label_counts :
              label_counts[c] = Cardinality({i \in DOMAIN labels : ModeOf(labels[i]) = c})
        /\ SumOver(label_counts, DOMAIN label_counts) = Len(labels)

\* The filter removed a class and left samples of two classes or more.
C21_Witness ==
    /\ pc = "split"
    /\ \E k \in DOMAIN log : log[k].msg = "Removed images with insufficient class samples"
    /\ Len(labels) >= 2
    /\ Len(labels) < Len(files)

\* ---------------------------------------------------------------- C22
\* C22: the run's inputs and its configured seed determine every random
\* choice of the run: the labels dumped, and what each set_split call keeps
\* and holds out on either branch; a second run on the same inputs with the
\* same arguments makes the choices of the first.
C22_InputsDetermineEveryChoice ==
    (run = 2 /\ Ended) => Choices = first[2]

\* ---------------------------------------------------------------- C23
PartitioningStarted == Len(calls) >= 1

\* C23: set_split leaves its input as it was: from the first call on, the
\* image list, the label list and the representative-label list of the pool
\* are element by element the ones the call was given, and from the second
\* call on so are the three lists of what the first call held out; this on
\* the stratified and on the fallback branch, and up to the end of the run.
C23_SplitLeavesItsInput ==
    /\ PartitioningStarted =>
           /\ images = calls[1].src_images
           /\ labels = calls[1].src_labels
           /\ label_modes = calls[1].src_label_idents
    /\ Len(calls) = 2 =>
           /\ temp_images = calls[2].src_images
           /\ temp_labels = calls[2].src_labels
           /\ temp_modes = calls[2].src_label_idents

C23_Witness ==
    /\ pc = "done"
    /\ Len(calls) = 2
    /\ path1 = "stratified"
    /\ path2 = "fallback"
    /\ test_labels # <<>>
    /\ Len(temp_labels) >= 2

\* ---------------------------------------------------------------- C24
\* The stage that follows each stage of lines 227-358 when nothing stops the run.
NextStage ==
    [dump |-> "summarize", summarize |-> "filter", filter |-> "split",
     split |-> IF args.test = Absent THEN "copy" ELSE "split2",
     split2 |-> "copy", copy |-> "yaml"]

Stopped == {"exit_dump", "crash_dump", "crash_summarize", "crash_filter", "crash_split"}

\* C24: the stages come in one order, dump, summary with histogram, filter,
\* first set_split call, second call in three-way mode, copying; a stage is
\* left only for the next one or because the run stops; samples leave the
\* pool in the dump and in the filter only, the representative labels and
\* the histogram are made by the summary and changed only by the filter, the
\* split lists are filled only by the set_split calls, files are copied only
\* in the copy stage, and from the first set_split call on the pool keeps
\* every sample.
C24_StagesInOrder ==
    [][/\ pc \in DOMAIN NextStage => pc' \in {pc, NextStage[pc]} \cup Stopped
       /\ (images' # images \/ labels' # labels) => pc \in {"load", "dump", "filter"}
       /\ (label_modes' # label_modes \/ label_counts' # label_counts) =>
              pc \in {"summarize", "filter"}
       /\ outs' # outs => pc \in {"split", "split2"}
       /\ copied' # copied => pc = "copy"
       /\ PartitioningStarted => (images' = images /\ labels' = labels)
       /\ pc = "summarize" /\ pc' = "filter" => Len(label_modes') = Len(labels)
      ]_vars

C24_Witness ==
    /\ pc = "done"
    /\ Len(calls) = 2
    /\ copied # {}
    /\ \E k \in DOMAIN log : log[k].msg = "Removing empty labels" /\ log[k].n[1] >= 1
    /\ \E k \in DOMAIN log : log[k].msg = "Removed images with insufficient class samples"

\* ---------------------------------------------------------------- C25
\* kept and held are what a random split of n samples at fraction f gives.
FloorSplit(kept, held, n, f) ==
    /\ Len(held) = FloorMul(f, n)
    /\ Len(kept) = n - FloorMul(f, n)
    /\ (InUnit(f) /\ n >= 1) => kept # <<>>
    /\ f[1] * n < f[2] => held = <<>>

\* C25: a set_split call that takes the fallback branch on a pool of n
\* samples (label files) with fraction f holds out exactly floor(n * f)
\* samples and keeps the other n - floor(n * f); with 0 < f < 1 and n >= 1
\* it keeps at least one, and with n * f < 1 it holds out none.
C25_FallbackHoldsOutFloor ==
    /\ (Returned1 /\ path1 = "fallback") =>
           FloorSplit(train_labels, held_labels, Len(calls[1].src_labels), calls[1].split)
    /\ (Returned2 /\ path2 = "fallback") =>
           FloorSplit(valid_labels, test_labels, Len(calls[2].src_labels), calls[2].split)

\* ---------------------------------------------------------------- C26
\* A second pass of the filter, on what the pass of the run left.
SecondPass == FilterPass(images, labels, label_modes, label_counts, args.min_samples)

\* C26: the filter applied again, with the same min_samples, to the pool and
\* the histogram it has produced finds no class with too few examples,
\* removes no sample and leaves the three lists and the histogram as they
\* are; every class left has the count it had before the filter.
C26_FilterIsIdempotent ==
    Pruned =>
        /\ SecondPass.err = None
        /\ SecondPass.problem_classes = {}
        /\ SecondPass.indices_to_remove = {}
        /\ SecondPass.images = images
        /\ SecondPass.labels = labels
        /\ SecondPass.label_modes = label_modes
        /\ SecondPass.label_counts = label_counts
        /\ \A c \in DOMAIN label_counts : label_counts[c] = HistogramCount(c)

\* The filter removed two classes and kept a third.
C26_Witness ==
    /\ pc = "split"
    /\ \E k \in DOMAIN log : log[k].msg = "Removed images with insufficient class samples"
                                /\ log[k].n[1] >= 2
    /\ Cardinality({ModeOf(s) : s \in BeforeFilter}) = 3
    /\ Cardinality(DOMAIN label_counts) = 1

\* ---------------------------------------------------------------- C27
\* The samples of the pool whose label file is empty.
EmptySamples == {labels[i] : i \in {j \in DOMAIN labels : StSize(files[labels[j]]) = 0}}

\* C27: the filter treats the samples with an empty label file as one more
\* class: when fewer than min_samples of them are in the pool the filter is
\* given, the filter takes every one of them out of the pool, label and
\* image; otherwise it keeps every one of them, label and image.
C27_EmptyLabelsAreAClass ==
    [][pc = "filter" =>
          /\ pc' = "split"
          /\ IF Cardinality(EmptySamples) < args.min_samples
             THEN /\ EmptySamples \cap Range(labels') = {}
                  /\ EmptySamples \cap Range(images') = {}
             ELSE /\ EmptySamples \subseteq Range(labels')
                  /\ EmptySamples \cap Range(images) \subseteq Range(images')
      ]_vars

\* ---------------------------------------------------------------- C28
\* C28: with --test, what the first set_split call held out is handed to the
\* second call as three lists of one length in which position k holds the
\* image, the label and the representative label of one position of the
\* pool; the representative label of every held-out sample is the one it had
\* in the first call, the mode of its label file.
C28_RestKeepsItsLabels ==
    (args.test # Absent /\ Returned1) =>
        /\ Len(temp_images) = Len(temp_labels)
        /\ Len(temp_modes) = Len(temp_labels)
        /\ \A k \in DOMAIN temp_labels :
              /\ temp_modes[k] = ModeOf(temp_labels[k])
              /\ \E i \in DOMAIN labels :
                    /\ labels[i] = temp_labels[k]
                    /\ label_modes[i] = temp_modes[k]
                    /\ images[i] = temp_images[k]
        /\ Len(calls) = 2 =>
              /\ calls[2].src_images = temp_images
              /\ calls[2].src_labels = temp_labels
              /\ calls[2].src_label_idents = temp_modes

\* The second call was given samples of two classes.
C28_Witness ==
    /\ args.test # Absent
    /\ Returned2
    /\ Cardinality(Range(temp_modes)) >= 2
    /\ train_labels # <<>>
    /\ test_labels # <<>>

\* ---------------------------------------------------------------- C29
\* The prompt is shown: one of train, valid and test is there (line 165).
Prompted == pc = "prompt" /\ fs \cap SplitDirs # {}

\* C29 as amended: a directory is deleted only at the prompt and only when
\* the answer, put in lower case, is y (y or Y); on any other answer to the
\* prompt the run exits, and it has then deleted and created no directory and
\* copied no file.
C29_DeletesOnlyOnYes ==
    [][/\ fs \ fs' # {} => (Prompted /\ Lower(answer) = <<"y">>)
       /\ (Prompted /\ Lower(answer) # <<"y">>) => pc' = "exit_declined"
       /\ pc' = "exit_declined" =>
              (fs' = fs0 /\ copied' = {} /\ pool' = pool /\ outs' = outs)
      ]_vars

\* C29 as stated: a directory is deleted only when the answer is y, and on
\* any other answer to the prompt the run exits without deleting, creating or
\* copying anything.
C29_DeletesOnlyOnLowerCaseY ==
    [][/\ fs \ fs' # {} => (Prompted /\ answer = <<"y">>)
       /\ (Prompted /\ answer # <<"y">>) => pc' = "exit_declined"
       /\ pc' = "exit_declined" =>
              (fs' = fs0 /\ copied' = {} /\ pool' = pool /\ outs' = outs)
      ]_vars

\* The trees of an earlier run are gone after the answer Y.
C29_Witness ==
    /\ pc = "makedirs"
    /\ answer = <<"Y">>
    /\ fs0 \cap SplitDirs # {}
    /\ fs \cap SplitDirs = {}

\* ---------------------------------------------------------------- C30
\* C30: when all_labels is not there and all_images is, the run stops with
\* FileNotFoundError at the check of the source directories: no directory
\* has been deleted or created.
C30_MissingLabelsStopAtCheck ==
    ("all_labels" \notin fs0 /\ "all_images" \in fs0) =>
        /\ pc \in {"start", "FileNotFoundError"}
        /\ fs = fs0

====
